---- MODULE Spec2Model ----
(***************************************************************************)
(* A model of the crypto_mgr endpoint (server/src/crypto_mgr.rs: Listener, *)
(* Connection and its handlers) and of the global chat service handler     *)
(* (server/src/gms/chat.rs) with the borrow channel it drives.             *)
(*                                                                         *)
(* Spec      : the Listener and its per-connection tasks.                  *)
(* SpecMask  : the word mask, the byte mask and xor_blocks_mut on their    *)
(*             own, applied to inputs drawn from sample sets.              *)
(* SpecChat  : one GlobalChatHandler task and its Borrower tasks.          *)
(* FairSpecChat : SpecChat with the scheduling fairness of the executor.   *)
(*                                                                         *)
(* A panic (a failed assert_eq!) unwinds the task that raised it: nothing  *)
(* after the panicking call runs in that task.  The model follows the      *)
(* default (unwinding) build profile, where the other tasks keep running.  *)
(***************************************************************************)
EXTENDS Integers, Sequences, FiniteSets, TLC

\* ------------------------------------------------------------------ bounds

\* connections the Listener accepts in a run
MaxConns == 2
\* messages received over all connections in a run
MaxMsgs == 3
\* Borrower tasks of the chat handler's borrow channel
MaxBorrowers == 2
\* submissions made over all Borrowers in a run
MaxSubmits == 3
\* inbound messages the chat handler is counted to have handled
MaxChatMsgs == 2
\* blocks in the variable-length enciphered fields of an AuthenticationRequest
FieldBlocks == 1
\* times a mask is applied to one value in a run
MaxMaskApply == 2
\* blocks in a slice handed to xor_blocks_mut on its own
MaxMaskBlocks == 2

\* --------------------------------------------------------- program constants

\* the word mask 0x1f398ab3, as its high and low 16-bit halves
WordMaskHi == 7993
WordMaskLo == 35507
ByteMask == 179
SentinelA == 246
SentinelB == 253
AuthPort == 38180
\* 0x03010101, as its high and low 16-bit halves
AuthUnk2Hi == 769
AuthUnk2Lo == 257
KeyBufLen == 32
KeyLetters == 8
ShortKeyLen == 9
NameBlocks == 16
BlockLen == 16
\* a u32 is held as two 16-bit halves, a usize as four 16-bit limbs (lowest
\* first), each below Limb
Limb == 65536

\* ------------------------------------------------------------ bit arithmetic

\* a ^ b on w-bit unsigned integers
RECURSIVE BitXor(_, _, _)
BitXor(a, b, w) ==
    IF w = 0 THEN 0
    ELSE ((a + b) % 2) + 2 * BitXor(a \div 2, b \div 2, w - 1)

\* b ^ 0xb3 for every byte b (the closure of xor_blocks_mut)
ByteMaskTable == [b \in 0..255 |-> BitXor(b, ByteMask, 8)]

xor_byte(b) == ByteMaskTable[b]

\* xor_blocks_mut: every byte of every block ^= 0xb3
xor_blocks_mut(blocks) ==
    [i \in DOMAIN blocks |-> [j \in DOMAIN blocks[i] |-> xor_byte(blocks[i][j])]]

\* a u32 from its halves
W32(hi, lo) == [hi |-> hi, lo |-> lo]
WordMask == W32(WordMaskHi, WordMaskLo)

\* the word mask added to each half instead of XORed
xor_word_add(x) == W32((x.hi + WordMaskHi) % Limb, (x.lo + WordMaskLo) % Limb)

\* x ^= 0x1f398ab3 on a u32
xor_word(x) == W32(BitXor(x.hi, WordMaskHi, 16), BitXor(x.lo, WordMaskLo, 16))

\* n as u32 on a usize: the low 32 bits
AsU32(n) == W32(n[2], n[1])

\* ------------------------------------------------------------------- blocks

\* Block::new(s): the bytes of s, zero padded to one block
BlockNew(s) == [j \in 1..BlockLen |-> IF j <= Len(s) THEN s[j] ELSE 0]

\* Block::arr_from_slice(s): the bytes of s, zero padded, cut into n blocks
BlockArrFromSlice(s, n) ==
    [i \in 1..n |->
        [j \in 1..BlockLen |->
            LET p == (i - 1) * BlockLen + j
            IN  IF p <= Len(s) THEN s[p] ELSE 0]]

\* the bytes of a sequence of blocks, in order
Flatten(blocks) ==
    [p \in 1..(Len(blocks) * BlockLen) |->
        blocks[((p - 1) \div BlockLen) + 1][((p - 1) % BlockLen) + 1]]

\* the place of the first NUL, or one past the end when there is none
FirstNul(bytes) ==
    IF \E k \in DOMAIN bytes : bytes[k] = 0
    THEN CHOOSE k \in DOMAIN bytes :
             bytes[k] = 0 /\ \A m \in 1..(k - 1) : bytes[m] # 0
    ELSE Len(bytes) + 1

\* the bytes before the first NUL
UntilNul(bytes) == SubSeq(bytes, 1, FirstNul(bytes) - 1)

\* BlockExt::try_as_str: the text before the first NUL; fails on bytes that
\* are no text
TryAsStrOk(blocks) == LET text == UntilNul(Flatten(blocks))
                      IN  \A k \in DOMAIN text : text[k] < 128
TryAsStr(blocks) == UntilNul(Flatten(blocks))

\* "Data/Item.scp", "Data/Mobs.scp", "Data/Warp.scp", "127.0.0.1"
NameItem == <<68, 97, 116, 97, 47, 73, 116, 101, 109, 46, 115, 99, 112>>
NameMobs == <<68, 97, 116, 97, 47, 77, 111, 98, 115, 46, 115, 99, 112>>
NameWarp == <<68, 97, 116, 97, 47, 87, 97, 114, 112, 46, 115, 99, 112>>
Loopback == <<49, 50, 55, 46, 48, 46, 48, 46, 49>>

\* ------------------------------------------------------------ block cipher

\* The cipher lives in the aria crate, outside the sources modelled here.  It
\* is taken as the spec describes it: a key expands deterministically to an
\* encrypt key, the decrypt key is derived from the encrypt key, and decrypt
\* undoes encrypt block by block.  The stand-in below is a keyed byte rotation
\* with addition mod 256, which does not commute with the byte mask.

\* aria::Key::expand: the encrypt key of a Key (a fixed key schedule)
expand(key) ==
    [j \in 1..BlockLen |-> (key[((j - 1) % KeyLetters) + 1] + 31 * j) % 256]

\* aria::DecryptKey::from(EncryptKey)
DecryptKeyFrom(enckey) == [j \in 1..BlockLen |-> (256 - enckey[j]) % 256]

Rot(j) == (j % BlockLen) + 1
RotInv(j) == ((j + BlockLen - 2) % BlockLen) + 1

\* EncryptKey::encrypt_mut on one block
encrypt_mut(enckey, block) ==
    [j \in 1..BlockLen |-> (block[Rot(j)] + enckey[j]) % 256]

\* DecryptKey::decrypt_mut on one block
decrypt_mut(deckey, block) ==
    [j \in 1..BlockLen |-> (block[RotInv(j)] + deckey[RotInv(j)]) % 256]

encrypt_blocks(enckey, blocks) ==
    [i \in DOMAIN blocks |-> encrypt_mut(enckey, blocks[i])]
decrypt_blocks(deckey, blocks) ==
    [i \in DOMAIN blocks |-> decrypt_mut(deckey, blocks[i])]

\* ------------------------------------------------------------------- state

VARIABLES
    listener,   \* Listener::listen: "listening", or "failed" once accept failed
    pc,         \* per connection: where its task is
    shortkey,   \* per connection: Connection::shortkey (None while unset)
    wire,       \* per connection: the messages received and sent, in order
    err,        \* per connection: the error or panic that ended its task
    log,        \* per connection: the lines the spawned task logged
    pending,    \* per connection: the reply handed to a send not yet complete
    hpc,        \* chat handler: where GlobalChatHandler::handle is
    hpending,   \* chat handler: the message handed to a send not yet complete
    hsent,      \* chat handler: messages it sent
    hrecv,      \* chat handler: what its receive before the loop gave
    hmsgs,      \* chat handler: inbound messages it has handled in its loop
    queue,      \* borrow channel: pending requests, oldest first
    running,    \* borrow channel: the requests whose closure is running
    signal,     \* per Borrower: the completion signal of its pending request
    bpc,        \* per Borrower: "idle", or "suspended" in a submission
    nsub,       \* per Borrower: submissions made so far
    result,     \* per Borrower: what its last submission resolved with
    submitted,  \* every request submitted, in submission order
    started,    \* every request whose closure was started, in order
    finished,   \* every request whose closure ran to completion, in order
    mask        \* the value a mask is applied to, as it was and as it is

cryptoVars == <<listener, pc, shortkey, wire, err, log, pending>>
chatVars == <<hpc, hpending, hsent, hrecv, hmsgs, queue, running, signal, bpc,
              nsub, result, submitted, started, finished>>
vars == <<listener, pc, shortkey, wire, err, log, pending, hpc, hpending,
          hsent, hrecv, hmsgs, queue, running, signal, bpc, nsub, result, submitted,
          started, finished, mask>>

Conns == 1..MaxConns
Borrowers == 1..MaxBorrowers
None == <<>>

\* ------------------------------------------------------------------ inputs

\* the letters rand::thread_rng() may draw for the 8 generated key bytes
KeySamples ==
    { <<97, 66, 99, 68, 101, 70, 103, 72>>,
      <<90, 122, 65, 97, 81, 113, 77, 109>> }

\* Connect payloads: the valid one, one with each sentinel wrong, one that
\* crypto_mgr::Connect::try_from cannot decode
ConnectMsgs ==
    { [kind |-> "Connect", decodes |-> TRUE, unk1 |-> SentinelA, world_id |-> SentinelB],
      [kind |-> "Connect", decodes |-> TRUE, unk1 |-> 0, world_id |-> SentinelB],
      [kind |-> "Connect", decodes |-> TRUE, unk1 |-> SentinelA, world_id |-> 1],
      [kind |-> "Connect", decodes |-> FALSE, unk1 |-> SentinelA, world_id |-> SentinelB] }

SplitSamples == {W32(0, 0), W32(Limb - 1, Limb - 1)}
KeyReqMsgs ==
    { [kind |-> "EncryptKey2Request", key_split_point |-> x] : x \in SplitSamples }

\* what a client holding key k puts on the wire for a text field: the text
\* in blocks, encrypted, then byte-masked
ClientField(k, text, n) ==
    xor_blocks_mut(encrypt_blocks(expand(k), BlockArrFromSlice(text, n)))

\* a field that is no enciphered text
JunkField(n) == [i \in 1..n |-> [j \in 1..BlockLen |-> 255]]

\* the closure of shortkey.get_or_init: 8 drawn letters in a zeroed keybuf
GenKeyBuf(letters) ==
    [j \in 1..KeyBufLen |-> IF j <= KeyLetters THEN letters[j] ELSE 0]

\* the key a client enciphers with: the connection's, or a guess when the
\* server has sent none yet
ClientKey(sk) == IF sk = None THEN GenKeyBuf(<<97, 66, 99, 68, 101, 70, 103, 72>>) ELSE sk

\* an AuthenticationRequest sample: its reserved fields, and whether its
\* opaque blob is junk
AuthSamples == { <<<<0, 0>>, FALSE>>, <<<<0, 0>>, TRUE>>, <<<<1, 0>>, FALSE>>, <<<<0, 1>>, FALSE>> }

AuthReqMsgs(sk) ==
    LET ip == ClientField(ClientKey(sk), Loopback, 1)[1]
        hash == ClientField(ClientKey(sk), NameItem, FieldBlocks)
        blob == ClientField(ClientKey(sk), NameMobs, FieldBlocks)
    IN  { [kind |-> "KeyAuthRequest", xor_port |-> WordMask, unk1 |-> a[1][1], unk2 |-> a[1][2],
           ip_origin |-> ip,
           ip_local |-> ip,
           srchash |-> hash,
           binbuf |-> IF a[2] THEN JunkField(FieldBlocks) ELSE blob]
          : a \in AuthSamples }

\* a path, and the hash of an ESYMRequest, is the sequence of its characters

\* the characters as one string
RECURSIVE Str(_)
Str(cs) == IF cs = <<>> THEN "" ELSE Head(cs) \o Str(Tail(cs))

\* resources_dir.join("resources/esym"), written from the resources directory
EsymDir == <<"r", "e", "s", "o", "u", "r", "c", "e", "s", "/", "e", "s", "y", "m">>
EsymExt == <<"e", "s", "y", "m">>

\* PathBuf::join: an absolute path replaces the base, any other is appended
\* after a separator
PathJoin(base, h) ==
    IF h # <<>> /\ h[1] = "/" THEN h
    ELSE IF base = <<>> \/ base[Len(base)] = "/" THEN base \o h
    ELSE base \o <<"/">> \o h

\* where the last component of p[1..e] ends: trailing separators and trailing
\* "." components do not count; 0 when there is none
RECURSIVE NameEnd(_, _)
NameEnd(p, e) ==
    IF e = 0 THEN 0
    ELSE IF p[e] = "/" THEN NameEnd(p, e - 1)
    ELSE IF p[e] = "." /\ e = 1 THEN 0
    ELSE IF p[e] = "." /\ p[e - 1] = "/" THEN NameEnd(p, e - 1)
    ELSE e

\* where the component ending at e starts
NameStart(p, e) ==
    IF \E k \in 1..e : p[k] = "/"
    THEN (CHOOSE k \in 1..e : p[k] = "/" /\ \A m \in (k + 1)..e : p[m] # "/") + 1
    ELSE 1

\* the place of the last "." of a file name, 0 when it has none
LastDot(name) ==
    IF \E k \in DOMAIN name : name[k] = "."
    THEN CHOOSE k \in DOMAIN name :
             name[k] = "." /\ \A m \in (k + 1)..Len(name) : name[m] # "."
    ELSE 0

\* Path::file_stem: the file name up to its last ".", the whole name when it
\* has no "." but a leading one
StemLen(name) == IF LastDot(name) <= 1 THEN Len(name) ELSE LastDot(name) - 1

\* Path::extension: how many characters follow the last "." of the file
\* name, 0 when the path has no file name or the name no extension
ExtLen(p) ==
    LET e == NameEnd(p, Len(p))
        b == NameStart(p, e)
        name == SubSeq(p, b, e)
    IN  IF e = 0 \/ name = <<".", ".">> \/ LastDot(name) <= 1 THEN 0
        ELSE Len(name) - LastDot(name)

\* PathBuf::set_extension: the path cut at the end of the stem of its file
\* name, then "." and the extension; a path without a file name is unchanged
SetExtension(p, ext) ==
    LET e == NameEnd(p, Len(p))
        b == NameStart(p, e)
        name == SubSeq(p, b, e)
    IN  IF e = 0 \/ name = <<".", ".">> THEN p
        ELSE SubSeq(p, 1, b + StemLen(name) - 1) \o <<".">> \o ext

\* Path::with_extension, as std builds it: the characters of the path less
\* as many as its extension has, and set_extension on that copy (so "..a"
\* is cut to "..", which has no file name and gets no extension)
WithExtension(p, ext) == SetExtension(SubSeq(p, 1, Len(p) - ExtLen(p)), ext)

\* the file system std::fs::read looks into.  The resources directory is
\* the working directory of the process, one level below the root, and paths
\* that do not start at the root start there.
RootDir == <<"/">>
WorkDir == <<"/", "w">>
NoEntry == <<>>
ResourcesAbs == WorkDir \o <<"/">> \o SubSeq(EsymDir, 1, 9)
EsymAbs == WorkDir \o <<"/">> \o EsymDir
Dirs == {RootDir, WorkDir, ResourcesAbs, EsymAbs}

\* the files there are, by their resolved path (from the root, without ".",
\* ".." or empty components): a file is its length and the first byte it
\* holds (byte i is (first + i) % 256).  Two are below the resources
\* directory, one is elsewhere.
SmallFile == EsymAbs \o <<"/", "s", "m", "a", "l", "l", ".", "e", "s", "y", "m">>
BigFile == EsymAbs \o <<"/", "b", "i", "g", ".", "e", "s", "y", "m">>
OutsideFile == <<"/", "o", "u", "t", "s", "i", "d", "e", ".", "e", "s", "y", "m">>
Files ==
    (SmallFile :> [len |-> <<5, 0, 0, 0>>, first |-> 69])
    @@ (BigFile :> [len |-> <<3, 0, 1, 0>>, first |-> 1])
    @@ (OutsideFile :> [len |-> <<7, 0, 0, 0>>, first |-> 33])

\* the components of a path: what stands between its separators
RECURSIVE Split(_)
Split(p) ==
    IF p = <<>> THEN <<>>
    ELSE IF p[1] = "/" THEN Split(Tail(p))
    ELSE IF \E k \in DOMAIN p : p[k] = "/"
    THEN LET n == CHOOSE k \in DOMAIN p :
                      p[k] = "/" /\ \A m \in 1..(k - 1) : p[m] # "/"
         IN  <<SubSeq(p, 1, n - 1)>> \o Split(SubSeq(p, n, Len(p)))
    ELSE <<p>>

\* the entry called name in directory dir
Child(dir, name) ==
    IF dir = RootDir THEN dir \o name ELSE dir \o <<"/">> \o name

\* the directory above dir; the root is above itself
Parent(dir) ==
    IF dir = RootDir \/ NameStart(dir, Len(dir)) = 2 THEN RootDir
    ELSE SubSeq(dir, 1, NameStart(dir, Len(dir)) - 2)

\* path resolution by the operating system: the components are followed one
\* by one from cur, and every one before the last has to be a directory
RECURSIVE Walk(_, _)
Walk(names, cur) ==
    IF names = <<>> THEN cur
    ELSE IF cur \notin Dirs THEN NoEntry
    ELSE IF Head(names) = <<".">> THEN Walk(Tail(names), cur)
    ELSE IF Head(names) = <<".", ".">> THEN Walk(Tail(names), Parent(cur))
    ELSE Walk(Tail(names), Child(cur, Head(names)))

\* what the path names to std::fs::read: the resolved path, NoEntry where
\* the path is empty or asks for a directory by a trailing separator
Resolve(p) ==
    IF p = <<>> \/ p[Len(p)] = "/" THEN NoEntry
    ELSE Walk(Split(p), IF p[1] = "/" THEN RootDir ELSE WorkDir)

\* std::fs::read succeeds on p
Readable(p) == Resolve(p) \in DOMAIN Files

\* the hashes requests name: of the two files, of no file, with an extension
\* of its own, an absolute path, climbing above the resources directory
\* through "." and ".." components, and two dots before a letter
HashSmall == <<"s", "m", "a", "l", "l">>
HashBig == <<"b", "i", "g">>
HashNoFile == <<"n", "o", "f", "i", "l", "e">>
HashDotted == <<"s", "m", "a", "l", "l", ".", "x">>
HashAbsolute == <<"/", "o", "u", "t", "s", "i", "d", "e">>
HashClimb == <<".", "/", ".", ".", "/", ".", ".", "/", ".", ".", "/", "o", "u", "t", "s", "i", "d", "e">>
HashTwoDots == <<".", ".", "a">>

\* the bytes bincode needs for an ESYMRequest: two length-prefixed fields
EsymEncodedLen(h) == 8 + Len(h)

\* a well-formed ESYMRequest naming h
EsymReq(h) ==
    [kind |-> "ESYM",
     bytes |-> [decodes |-> TRUE, nation |-> 1, srchash |-> h,
                used |-> EsymEncodedLen(h), len |-> EsymEncodedLen(h)]]

\* ESYM payloads.  bytes is the nested bincode buffer: whether it decodes as
\* an ESYMRequest, the request it decodes to, the bytes decoding consumed and
\* the bytes it holds.
EsymMsgs ==
    { EsymReq(h) : h \in {HashSmall, HashBig, HashNoFile, HashDotted,
                          HashAbsolute, HashClimb, HashTwoDots} }
    \cup { [kind |-> "ESYM",
            bytes |-> [decodes |-> TRUE, nation |-> 1, srchash |-> HashSmall,
                       used |-> EsymEncodedLen(HashSmall),
                       len |-> EsymEncodedLen(HashSmall) + 1]],
           [kind |-> "ESYM",
            bytes |-> [decodes |-> FALSE, nation |-> 0, srchash |-> <<>>,
                       used |-> 0, len |-> 2]] }

\* a payload of a kind no arm of Connection::handle names
OtherMsgs == { [kind |-> "ConnectAck"] }

ValidConnectMsg ==
    [kind |-> "Connect", decodes |-> TRUE, unk1 |-> SentinelA, world_id |-> SentinelB]

\* what may arrive first: every Connect sample, and a payload of a request
\* kind and of a skipped kind (the hello looks no further than the kind)
FirstInbound ==
    ConnectMsgs
    \cup { [kind |-> "EncryptKey2Request", key_split_point |-> W32(0, 0)] }
    \cup OtherMsgs

\* what may arrive in the loop: every request sample, and one payload of each
\* kind the loop skips
LoopInbound(sk) ==
    KeyReqMsgs \cup AuthReqMsgs(sk) \cup EsymMsgs \cup OtherMsgs \cup {ValidConnectMsg}

In(m) == [dir |-> "in", msg |-> m]
Out(m) == [dir |-> "out", msg |-> m]

\* the messages of one direction on a connection's wire, in order
Dir(w, d) ==
    LET sel == SelectSeq(w, LAMBDA e : e.dir = d)
    IN  [i \in 1..Len(sel) |-> sel[i].msg]

Received(c) == Dir(wire[c], "in")
Sent(c) == Dir(wire[c], "out")

RECURSIVE SumLen(_, _)
SumLen(f, S) ==
    IF S = {} THEN 0
    ELSE LET x == CHOOSE y \in S : TRUE IN Len(f[x]) + SumLen(f, S \ {x})

\* messages received so far, over all connections
TotalReceived == SumLen([c \in Conns |-> Received(c)], Conns)

\* ------------------------------------------------- Connection (crypto_mgr.rs)

\* what a handler leaves behind: the session key cell, the payloads it sent,
\* how it ended ("ok", "err": returned Err, "panic": unwound) and the message
Outcome(key, out, res, e) == [key |-> key, out |-> out, res |-> res, err |-> e]

\* a handler that got as far as its closing self.stream.send(&r).await
Reply(key, r) == Outcome(key, <<r>>, "ok", "")

\* self.stream.send(&r).await as the last expression of a handler: when the
\* send fails nothing is on the wire and the handler returns the error
SendLast(o, sendOk) ==
    IF o.out = <<>> \/ sendOk THEN o
    ELSE Outcome(o.key, <<>>, "err", "send failed")

\* the reply of handle_key_req
EncryptKey2Response(split, key) ==
    [kind |-> "EncryptKey2Response",
     key_split_point |-> split,
     shortkey |-> [j \in 1..ShortKeyLen |-> xor_byte(key[j])]]

\* handle_key_req sending its reply twice
handle_key_req_twice(sk, req, letters) ==
    LET split == xor_word(req.key_split_point)
        key == IF sk = None THEN GenKeyBuf(letters) ELSE sk
    IN  Outcome(key, <<EncryptKey2Response(split, key),
                       EncryptKey2Response(split, key)>>, "ok", "")

\* handle_key_req drawing a fresh key on every request (get_or_init lost)
handle_key_req_regen(sk, req, letters) ==
    LET split == xor_word(req.key_split_point)
        key == GenKeyBuf(letters)
    IN  Reply(key, EncryptKey2Response(split, key))

\* handle_key_req echoing the split point as received (the ^= lost)
handle_key_req_no_xor(sk, req, letters) ==
    LET split == req.key_split_point
        key == IF sk = None THEN GenKeyBuf(letters) ELSE sk
    IN  Reply(key, EncryptKey2Response(split, key))

\* Connection::handle_key_req
handle_key_req(sk, req, letters) ==
    LET split == xor_word(req.key_split_point)
        key == IF sk = None THEN GenKeyBuf(letters) ELSE sk
    IN  Reply(key, EncryptKey2Response(split, key))

\* an outbound name byte-masked before it is encrypted
EncName_mask_first(enckey, name) ==
    encrypt_blocks(enckey, xor_blocks_mut(BlockArrFromSlice(name, NameBlocks)))

\* one outbound name of handle_auth_req: blocks of the name, each encrypted,
\* then byte-masked
EncName(enckey, name) ==
    xor_blocks_mut(encrypt_blocks(enckey, BlockArrFromSlice(name, NameBlocks)))

\* an inbound field decrypted before it is byte-unmasked
DecField_decrypt_first(deckey, blocks) ==
    xor_blocks_mut(decrypt_blocks(deckey, blocks))

\* one inbound field of handle_auth_req: byte-unmasked, then each block
\* decrypted
DecField(deckey, blocks) == decrypt_blocks(deckey, xor_blocks_mut(blocks))

\* the reply of handle_auth_req
KeyAuthResponse(enckey) ==
    [kind |-> "KeyAuthResponse",
     unk1 |-> 1,
     xor_unk2 |-> xor_word(W32(AuthUnk2Hi, AuthUnk2Lo)),
     ip_local |-> BlockNew(Loopback),
     xor_unk3 |-> xor_byte(4),
     enc_item |-> EncName(enckey, NameItem),
     xor_unk4 |-> xor_byte(2),
     enc_mobs |-> EncName(enckey, NameMobs),
     xor_unk5 |-> xor_byte(1),
     enc_warp |-> EncName(enckey, NameWarp),
     port |-> AuthPort]

\* Connection::handle_auth_req
handle_auth_req(sk, req) ==
    IF req.unk1 # 0 \/ req.unk2 # 0
    THEN Outcome(sk, <<>>, "panic", "assertion failed: left == right")
    ELSE IF sk = None
    THEN Outcome(sk, <<>>, "err", "shortkey not initialized")
    ELSE LET enckey == expand(sk)
             deckey == DecryptKeyFrom(enckey)
             ip_origin == DecField(deckey, <<req.ip_origin>>)
             ip_local == DecField(deckey, <<req.ip_local>>)
             srchash == DecField(deckey, req.srchash)
             binbuf == DecField(deckey, req.binbuf)
         IN  IF ~(TryAsStrOk(ip_origin) /\ TryAsStrOk(ip_local)
                  /\ TryAsStrOk(srchash) /\ TryAsStrOk(binbuf))
             THEN Outcome(sk, <<>>, "err", "invalid utf-8")
             ELSE Reply(sk, KeyAuthResponse(enckey))

\* the reply of handle_esym: the encoded ESYMResponse in an ESYM payload
ESYMResponse(data) ==
    [kind |-> "ESYM",
     bytes |-> [unk1 |-> 1, filesize |-> AsU32(data.len), esym |-> data]]

\* the path handle_esym reads, written from the resources directory
EsymPath(srchash) == WithExtension(PathJoin(EsymDir, srchash), EsymExt)

\* Connection::handle_esym
handle_esym(sk, esym) ==
    IF ~esym.bytes.decodes
    THEN Outcome(sk, <<>>, "err", "decode error")
    ELSE IF esym.bytes.used # esym.bytes.len
    THEN Outcome(sk, <<>>, "err", "Trailing data in ESYM packet")
    ELSE LET path == EsymPath(esym.bytes.srchash)
             file == Resolve(path)
         IN  IF file \notin DOMAIN Files
             THEN Outcome(sk, <<>>, "err", "cannot read " \o Str(path))
             ELSE Reply(sk, ESYMResponse(Files[file]))

\* the ConnectAck of Connection::handle
ConnectAck ==
    [kind |-> "ConnectAck", unk1 |-> 0, unk2 |-> <<0, 255, 0, 255, 0, 0, 0, 0>>,
     unk3 |-> 246, unk4 |-> 246, unk5 |-> 965391104, unk6 |-> 31]

\* handle_hello without the two sentinel assertions
handle_hello_no_sentinel(p) ==
    IF p.kind # "Connect"
    THEN Outcome(None, <<>>, "err", "Expected Connect packet")
    ELSE IF ~p.decodes
    THEN Outcome(None, <<>>, "err", "decode error")
    ELSE Reply(None, ConnectAck)

\* Connection::handle up to its loop: the first message
handle_hello(p) ==
    IF p.kind # "Connect"
    THEN Outcome(None, <<>>, "err", "Expected Connect packet")
    ELSE IF ~p.decodes
    THEN Outcome(None, <<>>, "err", "decode error")
    ELSE IF p.unk1 # SentinelA \/ p.world_id # SentinelB
    THEN Outcome(None, <<>>, "panic", "assertion failed: left == right")
    ELSE Reply(None, ConnectAck)

\* the loop answering a Connect with another ConnectAck
handle_dispatch_ack_connect(sk, p, letters) ==
    IF p.kind = "EncryptKey2Request" THEN handle_key_req(sk, p, letters)
    ELSE IF p.kind = "KeyAuthRequest" THEN handle_auth_req(sk, p)
    ELSE IF p.kind = "ESYM" THEN handle_esym(sk, p)
    ELSE IF p.kind = "Connect" THEN Reply(sk, ConnectAck)
    ELSE Outcome(sk, <<>>, "ok", "")

\* the loop failing on a kind it has no arm for
handle_dispatch_reject_other(sk, p, letters) ==
    IF p.kind = "EncryptKey2Request" THEN handle_key_req(sk, p, letters)
    ELSE IF p.kind = "KeyAuthRequest" THEN handle_auth_req(sk, p)
    ELSE IF p.kind = "ESYM" THEN handle_esym(sk, p)
    ELSE Outcome(sk, <<>>, "err", "unexpected packet")

\* one turn of the loop of Connection::handle: the match on the payload
handle_dispatch(sk, p, letters) ==
    IF p.kind = "EncryptKey2Request" THEN handle_key_req(sk, p, letters)
    ELSE IF p.kind = "KeyAuthRequest" THEN handle_auth_req(sk, p)
    ELSE IF p.kind = "ESYM" THEN handle_esym(sk, p)
    ELSE Outcome(sk, <<>>, "ok", "")

\* the task spawned by Listener::listen around conn.handle(): an Err is
\* logged and the task closes the connection; a panic unwinds through it
TaskEnd(c, o) ==
    /\ pc' = [pc EXCEPT ![c] = IF o.res = "ok" THEN "Ready"
                                ELSE IF o.res = "err" THEN "closed"
                                ELSE "panicked"]
    /\ err' = [err EXCEPT ![c] = o.err]
    /\ log' = [log EXCEPT ![c] =
                  IF o.res = "err"
                  THEN @ \o <<"error: " \o o.err, "closing connection">>
                  ELSE @]

\* ------------------------------------------------------------ crypto actions

InitCrypto ==
    /\ listener = "listening"
    /\ pc = [c \in Conns |-> "unaccepted"]
    /\ shortkey = [c \in Conns |-> None]
    /\ wire = [c \in Conns |-> <<>>]
    /\ err = [c \in Conns |-> ""]
    /\ log = [c \in Conns |-> <<>>]
    /\ pending = [c \in Conns |-> <<>>]

InitChat ==
    /\ hpc = "start"
    /\ hpending = <<>>
    /\ hsent = <<>>
    /\ hrecv = <<>>
    /\ hmsgs = 0
    /\ queue = <<>>
    /\ running = {}
    /\ signal = [b \in Borrowers |-> None]
    /\ bpc = [b \in Borrowers |-> "idle"]
    /\ nsub = [b \in Borrowers |-> 0]
    /\ result = [b \in Borrowers |-> None]
    /\ submitted = <<>>
    /\ started = <<>>
    /\ finished = <<>>

\* no mask is being applied
NoMask == [kind |-> "none", orig |-> 0, val |-> 0, applied |-> 0]

Init == InitCrypto /\ InitChat /\ mask = NoMask

\* Listener::listen: accept succeeds, the Connection is built and its task
\* handed to smol::spawn and detached; the task is queued, it has not run yet
Accept(c) ==
    /\ listener = "listening"
    /\ pc[c] = "unaccepted"
    /\ \A d \in Conns : d < c => pc[d] # "unaccepted"
    /\ pc' = [pc EXCEPT ![c] = "spawned"]
    /\ UNCHANGED <<listener, shortkey, wire, err, log, pending>>
    /\ UNCHANGED chatVars
    /\ UNCHANGED mask

\* the spawned task is polled for the first time: it logs the new connection
\* and enters handle(), which awaits the first message
TaskStart(c) ==
    /\ pc[c] = "spawned"
    /\ pc' = [pc EXCEPT ![c] = "AwaitHello"]
    /\ log' = [log EXCEPT ![c] = @ \o <<"new connection">>]
    /\ UNCHANGED <<listener, shortkey, wire, err, pending>>
    /\ UNCHANGED chatVars
    /\ UNCHANGED mask

\* Listener::listen: an accept completes with an error, which leaves listen()
AcceptFail ==
    /\ listener = "listening"
    /\ listener' = "failed"
    /\ UNCHANGED <<pc, shortkey, wire, err, log, pending>>
    /\ UNCHANGED chatVars
    /\ UNCHANGED mask

\* self.stream.recv().await fails, before the hello or in the loop
RecvFail(c) ==
    /\ pc[c] \in {"AwaitHello", "Ready"}
    /\ TaskEnd(c, Outcome(shortkey[c], <<>>, "err", "recv failed"))
    /\ UNCHANGED <<listener, shortkey, wire, pending>>
    /\ UNCHANGED chatVars
    /\ UNCHANGED mask

\* the letters rand::thread_rng() would draw for a message: a sample for a
\* KeyExchangeRequest (drawn only if the key closure runs), none otherwise
Draws(p) ==
    IF p.kind = "EncryptKey2Request" THEN KeySamples ELSE {<<>>}

\* a handler ran up to its self.stream.send(..).await, where the task is
\* suspended with the reply not yet written, or it ended before any send
UpToSend(c, h) ==
    IF h.out # <<>>
    THEN /\ pc' = [pc EXCEPT ![c] = "Sending"]
         /\ pending' = [pending EXCEPT ![c] = h.out]
         /\ UNCHANGED <<err, log>>
    ELSE /\ TaskEnd(c, h)
         /\ UNCHANGED pending

\* Connection::handle: the first message is received and checked, and the
\* ConnectAck is built and handed to send
Hello(c) ==
    /\ pc[c] = "AwaitHello"
    /\ TotalReceived < MaxMsgs
    /\ \E p \in FirstInbound :
         /\ wire' = [wire EXCEPT ![c] = @ \o <<In(p)>>]
         /\ UpToSend(c, handle_hello(p))
    /\ UNCHANGED <<listener, shortkey>>
    /\ UNCHANGED chatVars
    /\ UNCHANGED mask

\* Connection::handle: one turn of the loop, a message is received and its
\* handler runs up to the send of its reply
Dispatch(c) ==
    /\ pc[c] = "Ready"
    /\ TotalReceived < MaxMsgs
    /\ \E p \in LoopInbound(shortkey[c]) :
         \E letters \in Draws(p) :
             LET h == handle_dispatch(shortkey[c], p, letters)
             IN  /\ wire' = [wire EXCEPT ![c] = @ \o <<In(p)>>]
                 /\ shortkey' = [shortkey EXCEPT ![c] = h.key]
                 /\ UpToSend(c, h)
    /\ UNCHANGED listener
    /\ UNCHANGED chatVars
    /\ UNCHANGED mask

\* self.stream.send(..).await completes: the reply is on the wire and handle()
\* goes on to the next recv, or the send failed and handle() returns the error
Send(c) ==
    /\ pc[c] = "Sending"
    /\ \E sendOk \in BOOLEAN :
         LET o == SendLast(Outcome(shortkey[c], pending[c], "ok", ""), sendOk)
         IN  /\ wire' = [wire EXCEPT ![c] =
                            @ \o [i \in DOMAIN o.out |-> Out(o.out[i])]]
             /\ TaskEnd(c, o)
    /\ pending' = [pending EXCEPT ![c] = <<>>]
    /\ UNCHANGED <<listener, shortkey>>
    /\ UNCHANGED chatVars
    /\ UNCHANGED mask

NextCrypto ==
    \/ \E c \in Conns : Accept(c)
    \/ \E c \in Conns : TaskStart(c)
    \/ AcceptFail
    \/ \E c \in Conns : RecvFail(c)
    \/ \E c \in Conns : Hello(c)
    \/ \E c \in Conns : Dispatch(c)
    \/ \E c \in Conns : Send(c)

Next == NextCrypto

Spec == Init /\ [][Next]_vars

\* ------------------------------------------------------- the masks alone

\* halves of the u32 values a mask is tried on
HalfSamples == {0, 1, 179, 7993, 32768, 35507, 65535}
WordSamples == {W32(h, l) : h \in HalfSamples, l \in HalfSamples}
ByteSamples == 0..255
BlockSamples ==
    { BlockNew(Loopback),
      [j \in 1..BlockLen |-> 0],
      [j \in 1..BlockLen |-> 255],
      [j \in 1..BlockLen |-> ByteMask],
      [j \in 1..BlockLen |-> (17 * j) % 256] }
SliceSamples == UNION {[1..n -> BlockSamples] : n \in 1..MaxMaskBlocks}

MaskInputs ==
    {[kind |-> "word", orig |-> x, val |-> x, applied |-> 0] : x \in WordSamples}
    \cup {[kind |-> "byte", orig |-> b, val |-> b, applied |-> 0] : b \in ByteSamples}
    \cup {[kind |-> "blocks", orig |-> bs, val |-> bs, applied |-> 0] : bs \in SliceSamples}

InitMask == InitCrypto /\ InitChat /\ mask \in MaskInputs

\* x ^= 0x1f398ab3, as handle_key_req and handle_auth_req do to a word
MaskWord ==
    /\ mask.kind = "word"
    /\ mask.applied < MaxMaskApply
    /\ mask' = [mask EXCEPT !.val = xor_word(@), !.applied = @ + 1]
    /\ UNCHANGED <<cryptoVars, chatVars>>

\* b ^ 0xb3, as handle_key_req does to a key byte
MaskByte ==
    /\ mask.kind = "byte"
    /\ mask.applied < MaxMaskApply
    /\ mask' = [mask EXCEPT !.val = xor_byte(@), !.applied = @ + 1]
    /\ UNCHANGED <<cryptoVars, chatVars>>

\* xor_blocks_mut on a slice of blocks
MaskBlocks ==
    /\ mask.kind = "blocks"
    /\ mask.applied < MaxMaskApply
    /\ mask' = [mask EXCEPT !.val = xor_blocks_mut(@), !.applied = @ + 1]
    /\ UNCHANGED <<cryptoVars, chatVars>>

NextMask == MaskWord \/ MaskByte \/ MaskBlocks

SpecMask == InitMask /\ [][NextMask]_vars

\* ------------------------------------------------- borrow channel (Lender)

\* a request: the Borrower that submitted it and its number among that
\* Borrower's submissions
Req(b, n) == <<b, n>>

\* what a submission resolves with: the "channel closed" failure, which no
\* step of handle() produces, or the result of its closure
ChannelClosed == <<"channel closed">>
Lent(r) == <<"ok", r>>

\* Lender::wait_to_lend resolves: a request is pending
WaitToLendReady == queue # <<>>

\* Lender::lend: the oldest pending request, if any
LendTake == IF queue = <<>> THEN None ELSE <<Head(queue)>>

\* ------------------------------------------- GlobalChatHandler (gms/chat.rs)

\* handle() is over: it returned an error or unwound from a panic.  It ends
\* in no other way: its loop has no break, and nothing in these files drops
\* its task.
OwnerGone == hpc \in {"exited", "panicked"}

\* handle() from its start up to its first send: the connection's conn_ref
\* is unwrapped, which panics when the connection has none, and the
\* service-identification ConnectAck is built and handed to send, where the
\* task is suspended with nothing written yet
HStart ==
    /\ hpc = "start"
    /\ \E hasConnRef \in BOOLEAN :
         IF ~hasConnRef
         THEN /\ hpc' = "panicked"
              /\ hpending' = hpending
         ELSE /\ hpc' = "sendingAck"
              /\ hpending' = << <<"ConnectAck">> >>
    /\ UNCHANGED <<hsent, hmsgs, queue, running, signal, bpc, nsub, result,
                   submitted, started, finished>>
    /\ UNCHANGED cryptoVars
    /\ UNCHANGED <<hrecv, mask>>

\* self.conn.stream.send(..).await completes: the ConnectAck is on the wire
\* and handle() goes on to its receive, or the send failed and handle()
\* returns the error
HSendAck ==
    /\ hpc = "sendingAck"
    /\ \E sendOk \in BOOLEAN :
         IF sendOk
         THEN /\ hsent' = hsent \o hpending
              /\ hpc' = "awaitRegister"
         ELSE /\ hsent' = hsent
              /\ hpc' = "exited"
    /\ hpending' = <<>>
    /\ UNCHANGED <<hmsgs, queue, running, signal, bpc, nsub, result,
                   submitted, started, finished>>
    /\ UNCHANGED cryptoVars
    /\ UNCHANGED <<hrecv, mask>>

\* handle() entering its loop whatever the receive gave
HRegister_any ==
    /\ hpc = "awaitRegister"
    /\ \E p \in {"RegisterChatSvr", "Other", "recv failed"} :
         /\ hrecv' = Append(hrecv, p)
         /\ hpc' = "select"
    /\ UNCHANGED <<hsent, hmsgs, queue, running, signal, bpc, nsub, result,
                   submitted, started, finished>>
    /\ UNCHANGED cryptoVars
    /\ UNCHANGED <<hpending, mask>>

\* handle(): the next message is received and must be RegisterChatSvr
HRegister ==
    /\ hpc = "awaitRegister"
    /\ \E p \in {"RegisterChatSvr", "Other", "recv failed"} :
         /\ hrecv' = Append(hrecv, p)
         /\ hpc' = IF p = "RegisterChatSvr" THEN "select" ELSE "exited"
    /\ UNCHANGED <<hsent, hmsgs, queue, running, signal, bpc, nsub, result,
                   submitted, started, finished>>
    /\ UNCHANGED cryptoVars
    /\ UNCHANGED <<hpending, mask>>

\* select!: the receive branch wins with a message, which is traced
RecvBranch ==
    /\ hpc = "select"
    /\ hmsgs < MaxChatMsgs
    /\ hmsgs' = hmsgs + 1
    /\ UNCHANGED <<hpc, hsent, queue, running, signal, bpc, nsub, result,
                   submitted, started, finished>>
    /\ UNCHANGED cryptoVars
    /\ UNCHANGED <<hrecv, hpending, mask>>

\* select!: the receive branch wins with an error, which leaves handle()
RecvBranchFail ==
    /\ hpc = "select"
    /\ hpc' = "exited"
    /\ UNCHANGED <<hsent, hmsgs, queue, running, signal, bpc, nsub, result,
                   submitted, started, finished>>
    /\ UNCHANGED cryptoVars
    /\ UNCHANGED <<hrecv, hpending, mask>>

\* select!: wait_to_lend() resolved and the lend branch wins
WaitToLend ==
    /\ hpc = "select"
    /\ WaitToLendReady
    /\ hpc' = "lendArm"
    /\ UNCHANGED <<hsent, hmsgs, queue, running, signal, bpc, nsub, result,
                   submitted, started, finished>>
    /\ UNCHANGED cryptoVars
    /\ UNCHANGED <<hrecv, hpending, mask>>

\* the lend branch with the lend future left to run beside the loop
LendBranch_detached ==
    /\ hpc = "lendArm"
    /\ LendTake # None
    /\ hpc' = "select"
    /\ running' = running \cup {LendTake[1]}
    /\ started' = Append(started, LendTake[1])
    /\ queue' = Tail(queue)
    /\ UNCHANGED <<hsent, hmsgs, signal, bpc, nsub, result, submitted, finished>>
    /\ UNCHANGED cryptoVars
    /\ UNCHANGED <<hrecv, hpending, mask>>

\* the lend branch with the lend future dropped instead of awaited
LendBranch_not_awaited ==
    /\ hpc = "lendArm"
    /\ LendTake # None
    /\ hpc' = "select"
    /\ started' = Append(started, LendTake[1])
    /\ queue' = Tail(queue)
    /\ UNCHANGED <<hsent, hmsgs, running, signal, bpc, nsub, result, submitted, finished>>
    /\ UNCHANGED cryptoVars
    /\ UNCHANGED <<hrecv, hpending, mask>>

\* the body of the lend branch: lend() hands the handler to the oldest
\* pending closure and the handler awaits it; lend() returning None makes the
\* unwrap() panic
LendBranch ==
    /\ hpc = "lendArm"
    /\ IF LendTake = None
       THEN /\ hpc' = "panicked"
            /\ UNCHANGED <<running, started, queue>>
       ELSE /\ hpc' = "lending"
            /\ running' = running \cup {LendTake[1]}
            /\ started' = Append(started, LendTake[1])
            /\ queue' = Tail(queue)
    /\ UNCHANGED <<hsent, hmsgs, signal, bpc, nsub, result, submitted, finished>>
    /\ UNCHANGED cryptoVars
    /\ UNCHANGED <<hrecv, hpending, mask>>

\* the awaited lend completes: the closure has run on the handler, its
\* submitter is signalled, and the loop goes on
LendDone ==
    /\ hpc = "lending"
    /\ \E r \in running :
         /\ running' = running \ {r}
         /\ finished' = Append(finished, r)
         /\ hsent' = Append(hsent, <<"borrowed", r>>)
         /\ signal' = IF bpc[r[1]] = "suspended" /\ nsub[r[1]] = r[2]
                      THEN [signal EXCEPT ![r[1]] = Lent(r)]
                      ELSE signal
    /\ hpc' = "select"
    /\ UNCHANGED <<hmsgs, queue, bpc, nsub, result, submitted, started>>
    /\ UNCHANGED cryptoVars
    /\ UNCHANGED <<hrecv, hpending, mask>>

\* -------------------------------------------------------- Borrower tasks

\* a Borrower submits a closure and suspends
Submit(b) ==
    /\ bpc[b] = "idle"
    /\ Len(submitted) < MaxSubmits
    /\ nsub' = [nsub EXCEPT ![b] = @ + 1]
    /\ bpc' = [bpc EXCEPT ![b] = "suspended"]
    /\ queue' = Append(queue, Req(b, nsub[b] + 1))
    /\ submitted' = Append(submitted, Req(b, nsub[b] + 1))
    /\ signal' = [signal EXCEPT ![b] = None]
    /\ UNCHANGED <<hpc, hsent, hmsgs, running, result, started, finished>>
    /\ UNCHANGED cryptoVars
    /\ UNCHANGED <<hrecv, hpending, mask>>

\* a signalled Borrower resumes with its closure's result
Resume(b) ==
    /\ bpc[b] = "suspended"
    /\ signal[b] # None
    /\ result' = [result EXCEPT ![b] = signal[b]]
    /\ bpc' = [bpc EXCEPT ![b] = "idle"]
    /\ UNCHANGED <<hpc, hsent, hmsgs, queue, running, signal, nsub,
                   submitted, started, finished>>
    /\ UNCHANGED cryptoVars
    /\ UNCHANGED <<hrecv, hpending, mask>>

NextChat ==
    \/ HStart
    \/ HSendAck
    \/ HRegister
    \/ RecvBranch
    \/ RecvBranchFail
    \/ WaitToLend
    \/ LendBranch
    \/ LendDone
    \/ \E b \in Borrowers : Submit(b)
    \/ \E b \in Borrowers : Resume(b)

SpecChat == Init /\ [][NextChat]_vars

\* The executor runs every task that can run, so a step of the handler's own
\* code or of a woken Borrower is taken once it stays possible (WF).  select!
\* picks among its ready branches at random, so the lend branch, ready at
\* every turn of the loop while a request is pending, is taken (SF).  What the
\* peer sends, and whether a receive fails, is left open.
FairSpecChat ==
    /\ SpecChat
    /\ SF_vars(WaitToLend)
    /\ WF_vars(LendBranch)
    /\ WF_vars(LendDone)
    /\ \A b \in Borrowers : WF_vars(Resume(b))

\* ------------------------------------------------------- claims: crypto_mgr

Running == {"AwaitHello", "Sending", "Ready"}
Terminated == {"closed", "panicked"}

HasKind(msgs, k) == \E i \in DOMAIN msgs : msgs[i].kind = k

ValidConnect(p) ==
    p.kind = "Connect" /\ p.decodes /\ p.unk1 = SentinelA /\ p.world_id = SentinelB

\* the connection completed the hello, handled no KeyExchangeRequest, and the
\* last message it received is an AuthenticationRequest
AuthBeforeKey(c) ==
    LET r == Received(c)
    IN  /\ Len(r) >= 2
        /\ ValidConnect(r[1])
        /\ HasKind(Sent(c), "ConnectAck")
        /\ ~HasKind(r, "EncryptKey2Request")
        /\ r[Len(r)].kind = "KeyAuthRequest"

\* C1: an AuthenticationRequest on a connection that completed the hello but
\* handled no KeyExchangeRequest fails with "shortkey not initialized",
\* whatever its fields hold, leaving the session key unset and no
\* authentication response sent.
C1_AuthBeforeKeyNotInitialized ==
    \A c \in Conns :
        AuthBeforeKey(c) =>
            /\ pc[c] = "closed"
            /\ err[c] = "shortkey not initialized"
            /\ shortkey[c] = None
            /\ ~HasKind(Sent(c), "KeyAuthResponse")

\* the first message of the connection is a Connect with a wrong sentinel
WrongSentinelFirst(c) ==
    LET r == Received(c)
    IN  /\ Len(r) >= 1
        /\ r[1].kind = "Connect"
        /\ (r[1].unk1 # SentinelA \/ r[1].world_id # SentinelB)

\* C2: a first Connect whose sentinels are not (0xf6, 0xfd) terminates the
\* connection; nothing, so no ConnectAck, is ever sent on it and no further
\* message is received.
C2_SentinelEnforced ==
    \A c \in Conns :
        WrongSentinelFirst(c) =>
            /\ pc[c] \in Terminated
            /\ Sent(c) = <<>>
            /\ Len(Received(c)) = 1

C2_Witness ==
    \E c \in Conns :
        /\ WrongSentinelFirst(c)
        /\ Received(c)[1].decodes
        /\ pc[c] \in Terminated

\* the Listener's task logged the failure that ended connection c
LoggedError(c) == \E i \in DOMAIN log[c] : log[c][i] = "error: " \o err[c]

ConnState(c) == <<pc[c], shortkey[c], wire[c], err[c], log[c], pending[c]>>

\* C3: whenever a connection's task fails, the failure is logged by the
\* Listener's task, the accept loop is as it was, and every other connection
\* is as it was.
C3_FailureIsolation ==
    [][\A c \in Conns :
          (pc[c] \in Running /\ pc'[c] \in Terminated) =>
              /\ LoggedError(c)'
              /\ listener' = listener
              /\ \A d \in Conns \ {c} : ConnState(d)' = ConnState(d)]_vars

\* the key bytes a KeyExchangeRequest reply carries, unmasked
ReplyKey(r) == LET masked == r.shortkey IN [j \in DOMAIN masked |-> xor_byte(masked[j])]

\* every KeyExchangeRequest reply sent on c carries the bytes of c's key
RepliesCarryKey(c) ==
    LET sent == Sent(c)
    IN  \A i \in DOMAIN sent :
            sent[i].kind = "EncryptKey2Response" =>
                /\ shortkey[c] # None
                /\ ReplyKey(sent[i]) = [j \in 1..ShortKeyLen |-> shortkey[c][j]]

\* C4: a session key, once set, is never changed by any later step, and every
\* KeyExchangeRequest reply on a connection carries that one key.
C4_SetOnceKey ==
    [][\A c \in Conns :
          /\ shortkey[c] # None => shortkey'[c] = shortkey[c]
          /\ RepliesCarryKey(c)']_vars

\* a connection answered two KeyExchangeRequests
C4_Witness ==
    \E c \in Conns :
        \E i, j \in DOMAIN Sent(c) :
            /\ i < j
            /\ Sent(c)[i].kind = "EncryptKey2Response"
            /\ Sent(c)[j].kind = "EncryptKey2Response"

IsLetter(b) == (b >= 97 /\ b <= 122) \/ (b >= 65 /\ b <= 90)

\* C5: every KeyExchangeRequest reply carries 9 bytes, each a session-key
\* byte XORed with 0xb3, and each unmasks to an ASCII letter.
C5_KeyBlobLetters ==
    \A c \in Conns :
        \A i \in DOMAIN Sent(c) :
            Sent(c)[i].kind = "EncryptKey2Response" =>
                /\ Len(Sent(c)[i].shortkey) = 9
                /\ \A j \in 1..9 :
                       /\ Sent(c)[i].shortkey[j] = BitXor(shortkey[c][j], 179, 8)
                       /\ IsLetter(BitXor(Sent(c)[i].shortkey[j], 179, 8))

\* split points received, and what 0x1f398ab3 makes of each
EchoTable ==
    { <<W32(0, 0), W32(7993, 35507)>>,
      <<W32(65535, 65535), W32(57542, 30028)>> }

\* C6: the reply to a KeyExchangeRequest carries the received split point
\* XORed with 0x1f398ab3: 0x00000000 is answered with 0x1f398ab3.
C6_SplitPointEcho ==
    \A c \in Conns :
        \A i \in DOMAIN wire[c] :
            (wire[c][i].dir = "out" /\ wire[c][i].msg.kind = "EncryptKey2Response") =>
                /\ i > 1
                /\ wire[c][i - 1].dir = "in"
                /\ wire[c][i - 1].msg.kind = "EncryptKey2Request"
                /\ <<wire[c][i - 1].msg.key_split_point,
                     wire[c][i].msg.key_split_point>> \in EchoTable

\* a request with split point 0 was answered, and one with 0xffffffff
C6_Witness ==
    /\ \E c \in Conns : \E i \in DOMAIN Sent(c) :
           /\ Sent(c)[i].kind = "EncryptKey2Response"
           /\ Sent(c)[i].key_split_point = W32(7993, 35507)
    /\ \E c \in Conns : \E i \in DOMAIN Sent(c) :
           /\ Sent(c)[i].kind = "EncryptKey2Response"
           /\ Sent(c)[i].key_split_point = W32(57542, 30028)

\* what the client reads from an outbound name: byte-unmask, decrypt each
\* block with the decrypt key of the session key, take the text
ClientReads(sk, blocks) ==
    TryAsStr(decrypt_blocks(DecryptKeyFrom(expand(sk)), xor_blocks_mut(blocks)))

\* C10: every authentication reply carries 127.0.0.1, port 38180 and three
\* names that unmask and decrypt, under the connection's session key, to
\* "Data/Item.scp", "Data/Mobs.scp" and "Data/Warp.scp".
C10_AuthReplyRoundTrip ==
    \A c \in Conns :
        \A i \in DOMAIN Sent(c) :
            Sent(c)[i].kind = "KeyAuthResponse" =>
                /\ shortkey[c] # None
                /\ TryAsStr(<<Sent(c)[i].ip_local>>) = <<49, 50, 55, 46, 48, 46, 48, 46, 49>>
                /\ Sent(c)[i].port = 38180
                /\ Len(Sent(c)[i].enc_item) = 16
                /\ Len(Sent(c)[i].enc_mobs) = 16
                /\ Len(Sent(c)[i].enc_warp) = 16
                /\ ClientReads(shortkey[c], Sent(c)[i].enc_item)
                     = <<68, 97, 116, 97, 47, 73, 116, 101, 109, 46, 115, 99, 112>>
                /\ ClientReads(shortkey[c], Sent(c)[i].enc_mobs)
                     = <<68, 97, 116, 97, 47, 77, 111, 98, 115, 46, 115, 99, 112>>
                /\ ClientReads(shortkey[c], Sent(c)[i].enc_warp)
                     = <<68, 97, 116, 97, 47, 87, 97, 114, 112, 46, 115, 99, 112>>

\* a connection answered a KeyExchangeRequest and then an
\* AuthenticationRequest
C10_Witness ==
    \E c \in Conns :
        /\ HasKind(Sent(c), "EncryptKey2Response")
        /\ HasKind(Sent(c), "KeyAuthResponse")

\* the message connection c receives in this step, if it receives one
NewIn(c) ==
    IF Len(wire'[c]) > Len(wire[c]) /\ wire'[c][Len(wire[c]) + 1].dir = "in"
    THEN <<wire'[c][Len(wire[c]) + 1].msg>>
    ELSE None

\* the messages connection c sends in this step, in order
NewOut(c) ==
    IF Len(wire'[c]) > Len(wire[c]) /\ wire'[c][Len(wire[c]) + 1].dir = "out"
    THEN [i \in 1..(Len(wire'[c]) - Len(wire[c])) |-> wire'[c][Len(wire[c]) + i].msg]
    ELSE <<>>

\* connection c receives message kind k in this step
Receives(c, k) == NewIn(c) # None /\ NewIn(c)[1].kind = k

\* b ^ 0xb3 for every byte b
Xor179 == [b \in 0..255 |-> BitXor(b, 179, 8)]

\* a field as the peer of the layering reads it: every byte unmasked first,
\* then every block decrypted
UnmaskThenDecrypt(sk, blocks) ==
    LET unmasked == [i \in DOMAIN blocks |->
                        [j \in 1..BlockLen |-> Xor179[blocks[i][j]]]]
        deckey == DecryptKeyFrom(expand(sk))
    IN  [i \in DOMAIN blocks |-> decrypt_mut(deckey, unmasked[i])]

\* a name as the layering sends it: every block encrypted first, then every
\* byte masked
EncryptThenMask(sk, name) ==
    LET enckey == expand(sk)
        blocks == BlockArrFromSlice(name, 16)
        encrypted == [i \in 1..16 |-> encrypt_mut(enckey, blocks[i])]
    IN  [i \in 1..16 |->
            [j \in 1..BlockLen |-> Xor179[encrypted[i][j]]]]

\* the four enciphered fields of a request are text once unmasked and then
\* decrypted
FieldsAreText(sk, req) ==
    /\ TryAsStrOk(UnmaskThenDecrypt(sk, <<req.ip_origin>>))
    /\ TryAsStrOk(UnmaskThenDecrypt(sk, <<req.ip_local>>))
    /\ TryAsStrOk(UnmaskThenDecrypt(sk, req.srchash))
    /\ TryAsStrOk(UnmaskThenDecrypt(sk, req.binbuf))

\* the reply whose three names are the names encrypted then byte-masked
LayeredReply(sk, r) ==
    /\ r.kind = "KeyAuthResponse"
    /\ r.enc_item = EncryptThenMask(sk, NameItem)
    /\ r.enc_mobs = EncryptThenMask(sk, NameMobs)
    /\ r.enc_warp = EncryptThenMask(sk, NameWarp)

\* C11: an AuthenticationRequest that gets past the reserved-field and key
\* checks is accepted exactly when each of its four enciphered fields is text
\* after byte-unmask then decrypt; the reply then handed to send, and every
\* authentication reply on the wire, carries each of the three names
\* encrypted then byte-masked.
C11_LayeringOrder ==
    [][\A c \in Conns :
          /\ (/\ Receives(c, "KeyAuthRequest")
              /\ NewIn(c)[1].unk1 = 0
              /\ NewIn(c)[1].unk2 = 0
              /\ shortkey[c] # None) =>
                 /\ FieldsAreText(shortkey[c], NewIn(c)[1])
                       => /\ pc'[c] = "Sending"
                          /\ Len(pending'[c]) = 1
                          /\ LayeredReply(shortkey[c], pending'[c][1])
                 /\ ~FieldsAreText(shortkey[c], NewIn(c)[1])
                       => /\ pc'[c] = "closed"
                          /\ err'[c] = "invalid utf-8"
                          /\ pending'[c] = <<>>
          /\ \A i \in DOMAIN NewOut(c) :
                 NewOut(c)[i].kind = "KeyAuthResponse"
                     => LayeredReply(shortkey[c], NewOut(c)[i])]_vars

\* an AuthenticationRequest whose source hash reads "Data/Item.scp" after
\* unmask then decrypt was answered
C11_Witness ==
    \E c \in Conns :
        /\ Len(wire[c]) >= 2
        /\ wire[c][Len(wire[c])].dir = "out"
        /\ wire[c][Len(wire[c])].msg.kind = "KeyAuthResponse"
        /\ wire[c][Len(wire[c]) - 1].msg.kind = "KeyAuthRequest"
        /\ TryAsStr(UnmaskThenDecrypt(shortkey[c], wire[c][Len(wire[c]) - 1].msg.srchash))
             = NameItem

\* a ResourceRequest whose inner request decodes but has trailing bytes
HasTrailing(p) == p.bytes.decodes /\ p.bytes.used # p.bytes.len

\* where the resource file of a hash is: <resources-dir>/resources/esym/,
\* the hash as received, ".esym"
ResourcePath(h) == EsymDir \o <<"/">> \o h \o <<".">> \o EsymExt

\* a resolved path that lies below the resources directory
UnderResources(f) ==
    Len(f) > Len(WorkDir) + 1 /\ SubSeq(f, 1, Len(WorkDir) + 1) = WorkDir \o <<"/">>

\* a ResourceRequest whose inner request is well formed and whose hash names
\* no file under the resources directory
NamesNoFile(p) ==
    /\ p.bytes.decodes
    /\ p.bytes.used = p.bytes.len
    /\ ~(Readable(ResourcePath(p.bytes.srchash))
          /\ UnderResources(Resolve(ResourcePath(p.bytes.srchash))))

\* C13: a ResourceRequest with bytes trailing its inner request, or naming no
\* readable file under the resources directory, gets no reply: the connection
\* closes with the error logged (the read failure naming the path), nothing
\* is handed to send, it receives and sends nothing more, and the accept loop
\* and every other connection are as they were.
C13_ResourceRequestFailure ==
    [][\A c \in Conns :
          /\ (/\ pc[c] = "Ready"
              /\ Receives(c, "ESYM")
              /\ (HasTrailing(NewIn(c)[1]) \/ NamesNoFile(NewIn(c)[1]))) =>
                 /\ pending'[c] = <<>>
                 /\ pc'[c] = "closed"
                 /\ HasTrailing(NewIn(c)[1]) => err'[c] = "Trailing data in ESYM packet"
                 /\ NamesNoFile(NewIn(c)[1]) =>
                        err'[c] = "cannot read "
                                    \o Str(EsymPath(NewIn(c)[1].bytes.srchash))
                 /\ LoggedError(c)'
                 /\ listener' = listener
                 /\ \A d \in Conns \ {c} : ConnState(d)' = ConnState(d)
          /\ pc[c] = "closed" => ConnState(c)' = ConnState(c)]_vars

\* C14: an AuthenticationRequest with a nonzero reserved field, with the
\* session key set or unset, gets no reply, ends the connection with the
\* failure logged like any other connection error, and leaves the session key
\* as it was.
C14_ReservedFieldsFailClosed ==
    [][\A c \in Conns :
          (/\ pc[c] = "Ready"
           /\ Receives(c, "KeyAuthRequest")
           /\ (NewIn(c)[1].unk1 # 0 \/ NewIn(c)[1].unk2 # 0)) =>
              /\ pending'[c] = <<>>
              /\ pc'[c] \in Terminated
              /\ LoggedError(c)'
              /\ shortkey'[c] = shortkey[c]]_vars

\* C15: the wire of a connection starts with a received message; anything
\* sent, a session key, or a second received message means the first message
\* was a valid Connect answered with the fixed ConnectAck; any other first
\* message ends the connection with nothing sent; the ConnectAck is sent at
\* most once, and a Connect received later gets no reply.
C15_HelloFirst ==
    \A c \in Conns :
        /\ wire[c] # <<>> => wire[c][1].dir = "in"
        /\ (Sent(c) # <<>> \/ shortkey[c] # None \/ Len(Received(c)) >= 2) =>
               /\ ValidConnect(Received(c)[1])
               /\ Len(wire[c]) >= 2
               /\ wire[c][2].dir = "out"
               /\ wire[c][2].msg =
                      [kind |-> "ConnectAck", unk1 |-> 0,
                       unk2 |-> <<0, 255, 0, 255, 0, 0, 0, 0>>,
                       unk3 |-> 246, unk4 |-> 246, unk5 |-> 965391104, unk6 |-> 31]
        /\ (Len(Received(c)) >= 1 /\ ~ValidConnect(Received(c)[1])) =>
               /\ pc[c] \in Terminated
               /\ Sent(c) = <<>>
               /\ Len(Received(c)) = 1
        /\ \A i, j \in DOMAIN Sent(c) :
               (Sent(c)[i].kind = "ConnectAck" /\ Sent(c)[j].kind = "ConnectAck") => i = j
        /\ \A i \in 2..Len(wire[c]) :
               (wire[c][i].dir = "in" /\ wire[c][i].msg.kind = "Connect") =>
                   (i = Len(wire[c]) \/ wire[c][i + 1].dir = "in")

\* a connection received a second Connect in Ready, sent the one ConnectAck
\* and is still in Ready
C15_Witness ==
    \E c \in Conns :
        /\ Len(Received(c)) >= 2
        /\ Received(c)[2].kind = "Connect"
        /\ Len(Sent(c)) = 1
        /\ Sent(c)[1].kind = "ConnectAck"
        /\ pc[c] = "Ready"

\* C16: in Ready, a received message that is no KeyExchangeRequest,
\* AuthenticationRequest or ResourceRequest is followed by nothing sent, the
\* session key, the failure and the log as they were, and the connection in
\* Ready.
C16_UnhandledSkipped ==
    [][\A c \in Conns :
          (/\ pc[c] = "Ready"
           /\ NewIn(c) # None
           /\ NewIn(c)[1].kind \notin {"EncryptKey2Request", "KeyAuthRequest", "ESYM"}) =>
              /\ pending'[c] = <<>>
              /\ Len(wire'[c]) = Len(wire[c]) + 1
              /\ pc'[c] = "Ready"
              /\ shortkey'[c] = shortkey[c]
              /\ err'[c] = err[c]
              /\ log'[c] = log[c]]_vars

\* a connection with its session key set skipped a message and is in Ready
C16_Witness ==
    \E c \in Conns :
        /\ pc[c] = "Ready"
        /\ shortkey[c] # None
        /\ Len(Received(c)) = 3
        /\ Received(c)[3].kind = "ConnectAck"
        /\ wire[c][Len(wire[c])].dir = "in"

\* the kind of reply each handled request kind is answered with
ReplyKind(k) ==
    IF k = "EncryptKey2Request" THEN "EncryptKey2Response"
    ELSE IF k = "KeyAuthRequest" THEN "KeyAuthResponse"
    ELSE IF k = "ESYM" THEN "ESYM"
    ELSE "none"

\* on the wire of c every sent message directly follows the received message
\* it answers, and every request received in the loop is directly followed by
\* its one reply, unless its one reply is being sent or it is the last
\* message of a connection that ended
WireInOrder(c) ==
    \A i \in DOMAIN wire[c] :
        /\ wire[c][i].dir = "out" =>
               /\ i > 1
               /\ wire[c][i - 1].dir = "in"
               /\ \/ i = 2 /\ wire[c][1].msg.kind = "Connect"
                            /\ wire[c][2].msg.kind = "ConnectAck"
                  \/ i > 2 /\ wire[c][i].msg.kind = ReplyKind(wire[c][i - 1].msg.kind)
        /\ (wire[c][i].dir = "in" /\ i >= 2 /\ ReplyKind(wire[c][i].msg.kind) # "none") =>
               \/ i < Len(wire[c]) /\ wire[c][i + 1].dir = "out"
               \/ i = Len(wire[c]) /\ pc[c] = "Sending" /\ Len(pending[c]) = 1
               \/ i = Len(wire[c]) /\ pc[c] \in Terminated /\ err[c] # ""

\* C17: on each connection every request is followed on the wire by exactly
\* its own reply before the next message is received, so replies are in the
\* order of their requests; the loop is left only with a failure of a receive
\* or of a handler, and a connection that ended receives and sends no more.
C17_InOrderRequestReply ==
    [][\A c \in Conns :
          /\ WireInOrder(c)'
          /\ pc[c] = "Sending" => NewIn(c) = None
          /\ (pc[c] \in {"Ready", "Sending"} /\ pc'[c] \notin {"Ready", "Sending"}) =>
                 (pc'[c] \in Terminated /\ err'[c] # "")
          /\ pc[c] \in Terminated => ConnState(c)' = ConnState(c)]_vars

\* a connection answered the hello, a KeyExchangeRequest and a
\* ResourceRequest, in that order
C17_Witness ==
    \E c \in Conns :
        /\ Len(Sent(c)) = 3
        /\ Sent(c)[1].kind = "ConnectAck"
        /\ Sent(c)[2].kind = "EncryptKey2Response"
        /\ Sent(c)[3].kind = "ESYM"
        /\ Len(wire[c]) = 6

\* the length field of a reply, as a byte count
FieldAsLen(filesize) == <<filesize.lo, filesize.hi, 0, 0>>

\* C19: every ResourceRequest reply carries the tag 1, the bytes of the file
\* named by the request, and a length field equal to the number of those
\* bytes.
C19_ResourceReplyLength ==
    \A c \in Conns :
        \A i \in DOMAIN wire[c] :
            (wire[c][i].dir = "out" /\ wire[c][i].msg.kind = "ESYM") =>
                /\ wire[c][i].msg.bytes.unk1 = 1
                /\ wire[c][i].msg.bytes.esym = Files[Resolve(EsymPath(wire[c][i - 1].msg.bytes.srchash))]
                /\ FieldAsLen(wire[c][i].msg.bytes.filesize)
                     = wire[c][i].msg.bytes.esym.len

\* x XOR 0x1f398ab3 on the halves of a u32, and b XOR 0xb3 on a byte
WordXorMask(x) == [hi |-> BitXor(x.hi, 7993, 16), lo |-> BitXor(x.lo, 35507, 16)]
ByteXorMask(b) == BitXor(b, 179, 8)

\* C12: a value masked once is the value XOR the mask (0x1f398ab3 on a word,
\* 0xb3 on a byte and on every byte of every block), and a value masked twice
\* is the value again.
C12_MaskRoundTrip ==
    /\ mask.applied = 2 => mask.val = mask.orig
    /\ (mask.applied = 1 /\ mask.kind = "word") => mask.val = WordXorMask(mask.orig)
    /\ (mask.applied = 1 /\ mask.kind = "byte") => mask.val = ByteXorMask(mask.orig)
    /\ (mask.applied = 1 /\ mask.kind = "blocks") =>
           /\ Len(mask.val) = Len(mask.orig)
           /\ \A i \in DOMAIN mask.orig : \A j \in 1..BlockLen :
                  mask.val[i][j] = ByteXorMask(mask.orig[i][j])

\* the word 0x1f398ab3 itself, which masks to 0, was masked twice
C12_Witness ==
    /\ mask.kind = "word"
    /\ mask.applied = 2
    /\ mask.orig = [hi |-> 7993, lo |-> 35507]

\* ---------------------------------------------------- claims: borrow channel

\* C7: at most one borrowed closure runs at a time, a closure runs only while
\* the handler is inside its lend step, and the handler handles no received
\* message while a closure runs.
C7_BorrowExclusive ==
    [][/\ Cardinality(running') <= 1
       /\ running' # {} => hpc' = "lending"
       /\ running # {} => hmsgs' = hmsgs]_vars

\* a closure runs after the handler handled a message, with a request pending
C7_Witness ==
    /\ running # {}
    /\ hmsgs > 0
    /\ queue # <<>>

IsPrefix(p, q) == Len(p) <= Len(q) /\ p = SubSeq(q, 1, Len(p))

InLoop == hpc \in {"select", "lendArm", "lending"}

\* closures start and finish in submission order, one at a time, each once,
\* and a Borrower holds a closure's result only if the closure is its own and
\* has finished
FifoOrder ==
    /\ IsPrefix(started, submitted)
    /\ IsPrefix(finished, started)
    /\ Len(started) - Len(finished) = Cardinality(running)
    /\ Len(started) - Len(finished) <= 1
    /\ \A i, j \in DOMAIN finished : finished[i] = finished[j] => i = j
    /\ \A b \in Borrowers :
           (result[b] # None /\ result[b] # ChannelClosed) =>
               /\ result[b][1] = "ok"
               /\ result[b][2][1] = b
               /\ \E i \in DOMAIN finished : finished[i] = result[b][2]
    /\ \A b \in Borrowers :
           signal[b] # None =>
               \E i \in DOMAIN finished : finished[i] = signal[b][2]

\* C8: closures run to completion one at a time in submission order, each
\* once, a submitter gets its own closure's result only after the closure
\* finished, and while the handler keeps running its loop every submission
\* is eventually resumed with that result.
C8_FifoCompletion ==
    /\ []FifoOrder
    /\ \A b \in Borrowers : \A n \in 1..MaxSubmits :
           (bpc[b] = "suspended" /\ nsub[b] = n /\ InLoop)
               ~> ((bpc[b] = "idle" /\ result[b] = Lent(Req(b, n))) \/ OwnerGone)

\* two Borrowers' closures finished and both were resumed with a result
C8_Witness ==
    /\ Len(finished) >= 2
    /\ finished[1][1] # finished[2][1]
    /\ \A b \in Borrowers : result[b] # None /\ result[b] # ChannelClosed

\* C18: the handler first hands its service-identification acknowledgement
\* to send, and that send puts it on the wire as the first message, or the
\* handler ends with nothing sent and nothing received (the connection had
\* no conn_ref to unwrap, or the send failed); after the acknowledgement it
\* receives once: the register message takes it into its loop, anything
\* else or a failed receive ends it; no closure is started before the
\* register message was received, and until then every submitted closure is
\* still pending.
C18_SubHandshakeGating ==
    [][/\ (hpc = "start" /\ hpc' # "start") =>
              /\ hsent' = <<>>
              /\ hrecv' = <<>>
              /\ \/ hpc' = "sendingAck" /\ hpending' = << <<"ConnectAck">> >>
                 \/ hpc' = "panicked" /\ hpending' = <<>>
       /\ (hpc = "sendingAck" /\ hpc' # "sendingAck") =>
              \/ hpc' = "awaitRegister" /\ hsent' = << <<"ConnectAck">> >> /\ hrecv' = <<>>
              \/ hpc' = "exited" /\ hsent' = <<>> /\ hrecv' = <<>>
       /\ (hpc = "awaitRegister" /\ hpc' # "awaitRegister") =>
              /\ Len(hrecv') = 1
              /\ hsent' = hsent
              /\ \/ hrecv'[1] = "RegisterChatSvr" /\ hpc' = "select"
                 \/ hrecv'[1] # "RegisterChatSvr" /\ hpc' = "exited"
       /\ (started' # <<>> \/ running' # {} \/ hpc' \in {"select", "lendArm", "lending"}) =>
              /\ hsent' # <<>>
              /\ hsent'[1] = <<"ConnectAck">>
              /\ hrecv' = <<"RegisterChatSvr">>
       /\ hpc' \in {"start", "sendingAck", "awaitRegister"} =>
              /\ started' = <<>>
              /\ queue' = submitted'
              /\ \A b \in Borrowers : signal'[b] = None]_vars

\* the acknowledgement is sent, the register message is awaited, and two
\* submitted closures are pending
C18_Witness ==
    /\ hpc = "awaitRegister"
    /\ hsent = << <<"ConnectAck">> >>
    /\ Len(queue) = 2
    /\ \A b \in Borrowers : bpc[b] = "suspended"

====
